---- MODULE Spec2Model ----
(***************************************************************************)
(* A model of the PBFT replica of pbft/consensus (State: the three-phase   *)
(* instance of one sequence number) and pbft/network/node.go (Node: the    *)
(* registry of instances, the executor and the checkpoint handler).        *)
(*                                                                         *)
(* The State methods are operators on a record; every one returns          *)
(* [st, out, err]: the State after the call, the message it returns and    *)
(* whether it returned an error.  The Node handlers are actions.           *)
(***************************************************************************)
EXTENDS Integers, Sequences, FiniteSets, TLC

(***************************************************************************)
(* Bounds of the model.                                                    *)
(***************************************************************************)
\* A vote counter of an instance is not driven past this value.
MaxVotes == 5
\* Number of client requests one node starts a consensus for.
MaxSeq == 10
\* Number of messages the faulty node of the cluster sends to one node.
MaxFaultyMsgs == 4
\* View IDs are at most MaxView.
MaxView == 5

(***************************************************************************)
(* Program constants.                                                      *)
(***************************************************************************)
periodCheckPoint == 5

(***************************************************************************)
(* The cluster: NodeTable in its order; view 0, so NodeTable[0] is the     *)
(* primary.                                                                *)
(***************************************************************************)
NodeIDs == {"R0", "R1", "R2", "R3"}
NodeTable == <<"R0", "R1", "R2", "R3">>
\* len(node.NodeTable) of the deployments modelled: f = 1 and f = 2.
TotNodes == {4, 7}
Views == {0, 1}
Operations == {"x", "y"}

\* Stage values.
Idle == "Idle"
PrePrepared == "PrePrepared"
Prepared == "Prepared"
Committed == "Committed"

(***************************************************************************)
(* Messages.  A nil pointer is a record of the same shape with its own     *)
(* tag, so that every slot holds values of one shape.                      *)
(***************************************************************************)
NilReq == [Operation |-> "nil", SequenceID |-> 0]
RequestMsg(op, seq) == [Operation |-> op, SequenceID |-> seq]

\* digest(object) = Hash(json.Marshal(object)): a code that differs for
\* different objects; json.Marshal(nil) is "null".
OpCode(op) == CASE op = "x" -> 1 [] op = "y" -> 2 [] OTHER -> 0
digest(req) ==
    IF req = NilReq THEN 0 ELSE OpCode(req.Operation) * 100 + req.SequenceID

PrePrepareMsg(v, n, d, req) ==
    [ViewID |-> v, SequenceID |-> n, Digest |-> d, RequestMsg |-> req]

PrepareMsg == "PrepareMsg"
CommitMsg == "CommitMsg"
VoteMsg(v, n, d, id, type) ==
    [ViewID |-> v, SequenceID |-> n, Digest |-> d, NodeID |-> id, MsgType |-> type]
\* No entry under a key of a vote map, and the nil entry CreateState stores.
NoVote == VoteMsg(0, 0, 0, "", "absent")
NilVote == VoteMsg(0, 0, 0, "", "nil")
NoMsg == VoteMsg(0, 0, 0, "", "none")

\* len(m) of a vote map.
MapKeys(m) == {k \in DOMAIN m : m[k] # NoVote}

(***************************************************************************)
(* consensus.State                                                         *)
(***************************************************************************)
\* The value of CheckPointState in a new State (node.go reads and sets it).
CheckPointPending == 0

CreateState(viewID, totNodes, primaryID) ==
    [ViewID |-> viewID,
     SequenceID |-> 0,
     CurrentStage |-> Idle,
     ReqMsg |-> NilReq,
     PrepareMsgs |-> [k \in NodeIDs |-> IF k = primaryID THEN NilVote ELSE NoVote],
     CommitMsgs |-> [k \in NodeIDs |-> NoVote],
     TotalPrepareMsg |-> 1,
     TotalCommitMsg |-> 0,
     f |-> (totNodes - 1) \div 3,
     CheckPointState |-> CheckPointPending]

\* TRUE when verifyMsg returns nil.
verifyMsg(state, viewID, sequenceID, digestGot) ==
    /\ state.ViewID = viewID
    /\ state.SequenceID = sequenceID
    /\ digestGot = digest(state.ReqMsg)

prepared(state) ==
    /\ state.ReqMsg # NilReq
    /\ ~(state.TotalPrepareMsg < 2 * state.f)

\* committed asking for one more COMMIT than Commit counts before it stops.
committedLate(state) ==
    /\ prepared(state)
    /\ ~(state.TotalCommitMsg < 2 * state.f + 1)

committed(state) ==
    /\ prepared(state)
    /\ ~(state.TotalCommitMsg < 2 * state.f)

StartConsensus(state, request, sequenceID) ==
    LET req == [request EXCEPT !.SequenceID = sequenceID]
        st == [state EXCEPT !.SequenceID = sequenceID,
                            !.ReqMsg = req,
                            !.CurrentStage = PrePrepared]
    IN [st |-> st,
        out |-> PrePrepareMsg(state.ViewID, sequenceID, digest(req), req),
        err |-> FALSE]

PrePrepare(state, prePrepareMsg) ==
    LET st1 == [state EXCEPT !.ReqMsg = prePrepareMsg.RequestMsg,
                             !.SequenceID = prePrepareMsg.SequenceID]
    IN IF ~verifyMsg(st1, prePrepareMsg.ViewID, prePrepareMsg.SequenceID,
                     prePrepareMsg.Digest)
       THEN [st |-> st1, out |-> NoMsg, err |-> TRUE]
       ELSE [st |-> [st1 EXCEPT !.CurrentStage = PrePrepared],
             out |-> VoteMsg(st1.ViewID, prePrepareMsg.SequenceID,
                             prePrepareMsg.Digest, "", PrepareMsg),
             err |-> FALSE]

\* PastPrepared with the threshold one vote too high.
PastPreparedLate(newTotal, f) == newTotal > 2 * f + 1

\* The threshold test of Prepare on the counter value the atomic add returned.
PastPrepared(newTotal, f) == newTotal > 2 * f

Prepare(state, prepareMsg) ==
    IF ~verifyMsg(state, prepareMsg.ViewID, prepareMsg.SequenceID, prepareMsg.Digest)
    THEN [st |-> state, out |-> NoMsg, err |-> TRUE]
    ELSE
      LET newTotalPrepareMsg == state.TotalPrepareMsg + 1
          st1 == [state EXCEPT !.PrepareMsgs[prepareMsg.NodeID] = prepareMsg,
                               !.TotalPrepareMsg = newTotalPrepareMsg]
      IN IF PastPrepared(newTotalPrepareMsg, state.f)
         THEN [st |-> st1, out |-> NoMsg, err |-> FALSE]
         ELSE IF prepared(st1)
         THEN [st |-> [st1 EXCEPT !.CurrentStage = Prepared],
               out |-> VoteMsg(st1.ViewID, prepareMsg.SequenceID,
                               prepareMsg.Digest, "", CommitMsg),
               err |-> FALSE]
         ELSE [st |-> st1, out |-> NoMsg, err |-> FALSE]

\* Commit returns (reply, request): out is the request of the pair, NilReq
\* when the pair is nil.
Commit(state, commitMsg) ==
    IF ~prepared(state)
    THEN [st |-> state, out |-> NilReq, err |-> TRUE]
    ELSE IF ~verifyMsg(state, commitMsg.ViewID, commitMsg.SequenceID, commitMsg.Digest)
    THEN [st |-> state, out |-> NilReq, err |-> TRUE]
    ELSE
      LET newTotalCommitMsg == state.TotalCommitMsg + 1
          st1 == [state EXCEPT !.CommitMsgs[commitMsg.NodeID] = commitMsg,
                               !.TotalCommitMsg = newTotalCommitMsg]
      IN IF newTotalCommitMsg > 2 * state.f
         THEN [st |-> st1, out |-> NilReq, err |-> FALSE]
         ELSE IF committed(st1)
         THEN [st |-> [st1 EXCEPT !.CurrentStage = Committed],
               out |-> st1.ReqMsg,
               err |-> FALSE]
         ELSE [st |-> st1, out |-> NilReq, err |-> FALSE]

(***************************************************************************)
(* network.Node: the handlers of resolveMsg, as operators on the registry  *)
(* node.States (sequenceID -> State, its keys the domain of the function)  *)
(* of the node `me`.  Each returns the registry after the call, what the   *)
(* handler broadcasts or hands on (out), and whether it returned an error. *)
(***************************************************************************)
\* VIEW-CHANGE and NEW-VIEW messages: the view they are for, their sender,
\* and the set V of VIEW-CHANGE messages a NEW-VIEW carries; NoNewView is nil.
ViewChangeMsg(nextViewID, nodeID) == [NextViewID |-> nextViewID, NodeID |-> nodeID]
NewViewMsg(nextViewID, nodeID, setViewChange) ==
    [NextViewID |-> nextViewID, NodeID |-> nodeID, V |-> setViewChange]
NoNewView == NewViewMsg(0, "", {})

ViewID0 == 0
\* updateView: the primary of a view.
Primary(viewID) == NodeTable[(viewID % Len(NodeTable)) + 1]
isMyNodePrimary(me) == me = Primary(ViewID0)

\* updateView keeping the primary of view 0.
updateViewStale(viewID) == [ID |-> viewID, Primary |-> Primary(ViewID0)]

\* updateView: node.View after the call.
updateView(viewID) == [ID |-> viewID, Primary |-> Primary(viewID)]

\* isMyNodePrimary in the view node.View.
isPrimaryOf(view, me) == me = view.Primary

EmptyRegistry == [k \in {} |-> CreateState(ViewID0, 4, Primary(ViewID0))]

\* node.createState: a State of the current view, seeded with the primary.
createState(totNodes) == CreateState(ViewID0, totNodes, Primary(ViewID0))

\* node.createState in the view node.View.
createStateIn(view, totNodes) == CreateState(view.ID, totNodes, view.Primary)

\* getState returns no error.
hasState(reg, sequenceID) == sequenceID \in DOMAIN reg

\* The type switch of routeMsg and resolveMsg.
isPrePrepareMsg(msg) == "RequestMsg" \in DOMAIN msg
isVoteMsg(msg, type) == "MsgType" \in DOMAIN msg /\ msg.MsgType = type

\* routeMsg: whether the dispatcher passes the message on to MsgDelivery.
routePrePrepare(me) == ~isMyNodePrimary(me)
routeVote(me, msg) == me # msg.NodeID

\* GetReq: createState, startConsensus with the next sequence number,
\* register the State; out is the PRE-PREPARE, which the primary broadcasts.
NodeGetReq(reg, totNodes, total, op) ==
    LET newTotalConsensus == total + 1
        res == StartConsensus(createState(totNodes), RequestMsg(op, 0), newTotalConsensus)
    IN [States |-> (res.out.SequenceID :> res.st) @@ reg,
        TotalConsensus |-> newTotalConsensus,
        out |-> res.out]

\* GetReq in the view node.View.
NodeGetReqIn(view, reg, totNodes, total, op) ==
    LET newTotalConsensus == total + 1
        res == StartConsensus(createStateIn(view, totNodes), RequestMsg(op, 0),
                              newTotalConsensus)
    IN [States |-> (res.out.SequenceID :> res.st) @@ reg,
        TotalConsensus |-> newTotalConsensus,
        out |-> res.out]

NodeGetPrePrepare(me, reg, msg) ==
    IF ~hasState(reg, msg.SequenceID)
    THEN [States |-> reg, out |-> NoMsg, err |-> TRUE]
    ELSE LET res == PrePrepare(reg[msg.SequenceID], msg)
         IN [States |-> [reg EXCEPT ![msg.SequenceID] = res.st],
             out |-> IF res.err THEN NoMsg ELSE [res.out EXCEPT !.NodeID = me],
             err |-> res.err]

NodeGetPrepare(me, reg, msg) ==
    IF ~hasState(reg, msg.SequenceID)
    THEN [States |-> reg, out |-> NoMsg, err |-> TRUE]
    ELSE LET res == Prepare(reg[msg.SequenceID], msg)
         IN [States |-> [reg EXCEPT ![msg.SequenceID] = res.st],
             out |-> IF res.out = NoMsg THEN NoMsg ELSE [res.out EXCEPT !.NodeID = me],
             err |-> res.err]

\* out is the request of the pair sent on MsgExecution, NilReq when none is.
NodeGetCommit(me, reg, msg) ==
    IF ~hasState(reg, msg.SequenceID)
    THEN [States |-> reg, out |-> NilReq, err |-> TRUE]
    ELSE LET res == Commit(reg[msg.SequenceID], msg)
         IN [States |-> [reg EXCEPT ![msg.SequenceID] = res.st],
             out |-> res.out,
             err |-> res.err]

(***************************************************************************)
(* The executor and the checkpoint handler, as operators on the record nd  *)
(* of the Node fields they read and write.  nd.event is not a field of     *)
(* Node: it records the last time CheckPoint marked a checkpoint stable    *)
(* (its sequence number, the checkpoint messages then logged for it, and   *)
(* StableCheckPoint after it).                                             *)
(***************************************************************************)
NoCheckPoint == 0
EmptyLog == [k \in NodeIDs |-> NoCheckPoint]
NoEvent == [SequenceID |-> 0, log |-> EmptyLog, f |-> 0, StableCheckPoint |-> 0]

\* node.CheckPointMsgsLog[SequenceID], the zero value when the key is absent.
LogOf(log, sequenceID) ==
    IF sequenceID \in DOMAIN log THEN log[sequenceID] ELSE EmptyLog
LogKeys(m) == {k \in NodeIDs : m[k] # NoCheckPoint}

\* getCheckPointMsg
CheckPointMsg(sequenceID, nodeID, reqMsgs) ==
    [SequenceID |-> sequenceID, Digest |-> digest(reqMsgs), NodeID |-> nodeID]

Checkpointchk(nd, me, sequenceID) ==
    IF ~hasState(nd.States, sequenceID)
    THEN FALSE
    ELSE /\ Cardinality(LogKeys(LogOf(nd.CheckPointMsgsLog, sequenceID)))
              >= 2 * nd.States[sequenceID].f + 1
         /\ LogOf(nd.CheckPointMsgsLog, sequenceID)[me] # NoCheckPoint

\* The new value of StableCheckPoint when the checkpoint of msg turns stable.
NextStableCheckPoint(stable, msg) == stable + periodCheckPoint

Restrict(fn, keep) == [k \in keep |-> fn[k]]

CheckPoint(nd, me, msg) ==
    LET seq == msg.SequenceID
        log1 == (seq :> [LogOf(nd.CheckPointMsgsLog, seq) EXCEPT ![msg.NodeID] = msg.Digest])
                   @@ nd.CheckPointMsgsLog
        nd1 == [nd EXCEPT !.CheckPointMsgsLog = log1]
    IN IF Checkpointchk(nd1, me, seq) /\ nd1.States[seq].CheckPointState = 0
       THEN LET fStableCheckPoint == NextStableCheckPoint(nd.StableCheckPoint, msg)
                marked == [nd1.States EXCEPT ![seq].CheckPointState = 1]
            IN [nd1 EXCEPT
                  !.CheckPointMsgsLog =
                      Restrict(log1, {v \in DOMAIN log1 : ~(v < fStableCheckPoint)}),
                  !.States =
                      Restrict(marked, {v \in DOMAIN marked : ~(v < fStableCheckPoint)}),
                  !.StableCheckPoint = fStableCheckPoint,
                  !.event = [SequenceID |-> seq, log |-> log1[seq],
                             f |-> nd1.States[seq].f,
                             StableCheckPoint |-> fStableCheckPoint]]
       ELSE nd1

\* LastSequenceID reading the first committed message instead of the last.
LastSequenceIDFirst(committedMsgs) ==
    IF Len(committedMsgs) > 0
    THEN committedMsgs[1].SequenceID
    ELSE 0

\* The sequence number of the last committed message, 0 when there is none.
LastSequenceID(committedMsgs) ==
    IF Len(committedMsgs) > 0
    THEN committedMsgs[Len(committedMsgs)].SequenceID
    ELSE 0

\* NextToExecute skipping a sequence number.
NextToExecuteSkip(lastSequenceID) == lastSequenceID + 2

\* The key of pairs the executor looks up next.
NextToExecute(lastSequenceID) == lastSequenceID + 1

\* NextCheckPoint that does not move with the send point.
NextCheckPointFixed(sendPoint) == periodCheckPoint

\* The sequence number at which the executor emits the next CHECKPOINT.
NextCheckPoint(sendPoint) == sendPoint + periodCheckPoint

Reply(req) == [Path |-> "/reply", SequenceID |-> req.SequenceID, Result |-> "Executed"]
CheckPointOut(msg) == [Path |-> "/checkpoint", SequenceID |-> msg.SequenceID, Result |-> ""]

\* The inner loop of executeMsg: execute all the consecutive messages.
RECURSIVE ExecuteLoop(_, _)
ExecuteLoop(nd, me) ==
    LET lastSequenceID == LastSequenceID(nd.CommittedMsgs)
        key == NextToExecute(lastSequenceID)
    IN IF key \notin DOMAIN nd.pairs
       THEN nd
       ELSE LET p == nd.pairs[key]
                nd1 == [nd EXCEPT !.CommittedMsgs = Append(@, p),
                                  !.MsgOutbound = Append(@, Reply(p))]
                nCheckPoint == NextCheckPoint(nd.CheckPointSendPoint)
                nd2 == IF p.SequenceID = nCheckPoint
                       THEN LET checkPointMsg == CheckPointMsg(p.SequenceID, me, p)
                            IN CheckPoint(
                                 [nd1 EXCEPT !.CheckPointSendPoint = nCheckPoint,
                                             !.MsgOutbound = Append(@, CheckPointOut(checkPointMsg))],
                                 me, checkPointMsg)
                       ELSE nd1
            IN ExecuteLoop(
                 [nd2 EXCEPT !.pairs = Restrict(@, DOMAIN @ \ {key})], me)

\* executeMsg on one pair received from MsgExecution.
executeMsg(nd, me, committedMsg) ==
    ExecuteLoop(
      [nd EXCEPT !.pairs = (committedMsg.SequenceID :> committedMsg) @@ @], me)

(***************************************************************************)
(* State of the model.                                                     *)
(***************************************************************************)
VARIABLES
    nNodes,              \* len(node.NodeTable)
    States,              \* node.States
    TotalConsensus,      \* node.TotalConsensus
    CommittedMsgs,       \* node.CommittedMsgs
    pairs,               \* executeMsg's pairs: sequenceID -> request of the pair
    MsgOutbound,         \* what Broadcast has put on node.MsgOutbound, in order
    CheckPointSendPoint, \* node.CheckPointSendPoint
    CheckPointMsgsLog,   \* node.CheckPointMsgsLog
    StableCheckPoint,    \* node.StableCheckPoint
    event,               \* the last checkpoint CheckPoint marked stable
    emitted,             \* how many COMMITs, pairs and PREPARED transitions so far
    acceptedPP,          \* digests of the PRE-PREPAREs PrePrepare has accepted
    replicas,            \* the non-faulty nodes of a cluster
    net,                 \* the messages the non-faulty nodes have broadcast
    View,                \* node.View: ID and Primary
    ViewChangeState,     \* node.ViewChangeState: <<>> (nil) or <<its view ID>>
    adopted,             \* the last NEW-VIEW on which GetNewView changed node.View
    preparedAt,          \* digest of the request prepared at the view change, 0: none
    MsgEntrance,         \* node.MsgEntrance: the messages waiting for dispatchMsg
    MsgDelivery,         \* node.MsgDelivery: the messages waiting for resolveMsg
    resolvers,           \* the calls the resolveMsg goroutines are in
    started,             \* the GetReq calls in the order of their atomic.AddInt64
    StatesMutex,         \* node.StatesMutex: the call holding Lock, the calls holding RLock
    dispatchers,         \* the messages the dispatchMsg goroutines hold in routeMsg
    entranceClosed,      \* close(node.MsgEntrance) has run
    panicked             \* a goroutine has panicked: the process is gone

nodeVars == <<nNodes, States, TotalConsensus>>
execVars == <<CommittedMsgs, pairs, MsgOutbound, CheckPointSendPoint,
              CheckPointMsgsLog, StableCheckPoint, event>>
histVars == <<emitted, acceptedPP>>
clusterVars == <<replicas, net>>
viewVars == <<View, ViewChangeState, adopted, preparedAt>>
queueVars == <<MsgEntrance, MsgDelivery>>
raceVars == <<started, StatesMutex, dispatchers, entranceClosed, panicked>>
extVars == <<viewVars, queueVars, resolvers, raceVars>>
vars == <<nodeVars, execVars, histVars, clusterVars, extVars>>

NoState == CreateState(ViewID0, 4, "")
StateOf(reg, sequenceID) ==
    IF hasState(reg, sequenceID) THEN reg[sequenceID] ELSE NoState

InitExecIdle ==
    /\ CommittedMsgs = <<>>
    /\ pairs = <<>>
    /\ MsgOutbound = <<>>
    /\ CheckPointSendPoint = 0
    /\ CheckPointMsgsLog = <<>>
    /\ StableCheckPoint = 0
    /\ event = NoEvent
InitHistIdle ==
    /\ emitted = [commits |-> 0, pairs |-> 0, transitions |-> 0]
    /\ acceptedPP = {}
InitClusterIdle ==
    /\ replicas = <<>>
    /\ net = {}
NoCall == 0
InitRaceIdle ==
    /\ started = <<>>
    /\ StatesMutex = [writer |-> NoCall, readers |-> {}]
    /\ dispatchers = <<>>
    /\ entranceClosed = FALSE
    /\ panicked = FALSE
InitExtIdle ==
    /\ View = updateView(ViewID0)
    /\ ViewChangeState = <<>>
    /\ adopted = NoNewView
    /\ preparedAt = 0
    /\ MsgEntrance = <<>>
    /\ MsgDelivery = <<>>
    /\ resolvers = <<>>
    /\ InitRaceIdle

(***************************************************************************)
(* One instance at the backup R1: the handlers of resolveMsg on messages   *)
(* for sequence number 1 (and 2, which has no State), from R0, R2 and R1   *)
(* itself, in any order and any number of times.                           *)
(***************************************************************************)
MyInfo == "R1"
InstRequests == {RequestMsg(op, 1) : op \in Operations}
InstDigests == {digest(r) : r \in InstRequests}
InstSeqs == {1, 2}
InstVoters == {"R0", "R1", "R2"}
InstPrePrepares ==
    {PrePrepareMsg(v, n, d, r) :
        v \in Views, n \in InstSeqs, d \in InstDigests, r \in InstRequests}
InstVotes(type) ==
    {VoteMsg(v, n, d, id, type) :
        v \in Views, n \in InstSeqs, d \in InstDigests, id \in InstVoters}

InitInstance ==
    /\ nNodes \in TotNodes
    /\ States = EmptyRegistry
    /\ TotalConsensus = 0
    /\ InitExecIdle
    /\ InitHistIdle
    /\ InitClusterIdle
    /\ InitExtIdle

InstGetReq ==
    /\ TotalConsensus = 0
    /\ \E op \in Operations :
         LET res == NodeGetReq(States, nNodes, TotalConsensus, op)
         IN /\ States' = res.States
            /\ TotalConsensus' = res.TotalConsensus
    /\ UNCHANGED <<nNodes, execVars, histVars, clusterVars, extVars>>

InstGetPrePrepare ==
    /\ routePrePrepare(MyInfo)
    /\ \E msg \in InstPrePrepares :
         LET res == NodeGetPrePrepare(MyInfo, States, msg)
         IN /\ States' = res.States
            /\ acceptedPP' = IF res.err THEN acceptedPP
                             ELSE acceptedPP \cup {msg.Digest}
    /\ UNCHANGED <<nNodes, TotalConsensus, execVars, emitted, clusterVars, extVars>>

InstGetPrepare ==
    /\ \E msg \in InstVotes(PrepareMsg) :
         /\ routeVote(MyInfo, msg)
         /\ StateOf(States, msg.SequenceID).TotalPrepareMsg < MaxVotes
         /\ LET old == StateOf(States, msg.SequenceID)
                res == NodeGetPrepare(MyInfo, States, msg)
            IN /\ States' = res.States
               /\ emitted' =
                    [emitted EXCEPT
                       !.commits = @ + (IF res.out # NoMsg THEN 1 ELSE 0),
                       !.transitions =
                          @ + (IF /\ old.CurrentStage = PrePrepared
                                  /\ StateOf(res.States, msg.SequenceID).CurrentStage = Prepared
                               THEN 1 ELSE 0)]
    /\ UNCHANGED <<nNodes, TotalConsensus, execVars, acceptedPP, clusterVars, extVars>>

InstGetCommit ==
    /\ \E msg \in InstVotes(CommitMsg) :
         /\ routeVote(MyInfo, msg)
         /\ StateOf(States, msg.SequenceID).TotalCommitMsg < MaxVotes
         /\ LET res == NodeGetCommit(MyInfo, States, msg)
            IN /\ States' = res.States
               /\ emitted' = [emitted EXCEPT
                                !.pairs = @ + (IF res.out # NilReq THEN 1 ELSE 0)]
    /\ UNCHANGED <<nNodes, TotalConsensus, execVars, acceptedPP, clusterVars, extVars>>

NextInstance ==
    \/ InstGetReq
    \/ InstGetPrePrepare
    \/ InstGetPrepare
    \/ InstGetCommit

SpecInstance == InitInstance /\ [][NextInstance]_vars

(***************************************************************************)
(* The executor of one node: requests start consensus (GetReq) and the     *)
(* pairs of the registered instances reach executeMsg in any order, each   *)
(* any number of times.                                                    *)
(***************************************************************************)
Node ==
    [States |-> States, CommittedMsgs |-> CommittedMsgs, pairs |-> pairs,
     MsgOutbound |-> MsgOutbound, CheckPointSendPoint |-> CheckPointSendPoint,
     CheckPointMsgsLog |-> CheckPointMsgsLog, StableCheckPoint |-> StableCheckPoint,
     event |-> event]

Becomes(nd) ==
    /\ States' = nd.States
    /\ CommittedMsgs' = nd.CommittedMsgs
    /\ pairs' = nd.pairs
    /\ MsgOutbound' = nd.MsgOutbound
    /\ CheckPointSendPoint' = nd.CheckPointSendPoint
    /\ CheckPointMsgsLog' = nd.CheckPointMsgsLog
    /\ StableCheckPoint' = nd.StableCheckPoint
    /\ event' = nd.event

ExecOperation == "x"

InitNode ==
    /\ nNodes = Len(NodeTable)
    /\ States = EmptyRegistry
    /\ TotalConsensus = 0
    /\ InitExecIdle
    /\ InitHistIdle
    /\ InitClusterIdle
    /\ InitExtIdle

GetReq ==
    /\ TotalConsensus < MaxSeq
    /\ LET res == NodeGetReq(States, nNodes, TotalConsensus, ExecOperation)
       IN /\ States' = res.States
          /\ TotalConsensus' = res.TotalConsensus
    /\ UNCHANGED <<nNodes, execVars, histVars, clusterVars, extVars>>

\* executeMsg receives the pair of a committed instance from MsgExecution.
ExecuteAny ==
    /\ \E seq \in DOMAIN States :
         Becomes(executeMsg(Node, MyInfo, States[seq].ReqMsg))
    /\ UNCHANGED <<nNodes, TotalConsensus, histVars, clusterVars, extVars>>

NextExec ==
    \/ GetReq
    \/ ExecuteAny

SpecExec == InitNode /\ [][NextExec]_vars

(***************************************************************************)
(* The checkpoints of one node: the pairs reach the executor in sequence   *)
(* order, and the CHECKPOINT messages of the other nodes arrive in any     *)
(* order; R3 may send a CHECKPOINT with another digest.                    *)
(***************************************************************************)
CkptSeqs == {k * periodCheckPoint : k \in 1..(MaxSeq \div periodCheckPoint)}
CkptFaulty == "R3"
CkptMsgs ==
    {CheckPointMsg(n, id, RequestMsg(ExecOperation, n)) :
        n \in CkptSeqs, id \in NodeIDs \ {MyInfo}}
    \cup {CheckPointMsg(n, CkptFaulty, RequestMsg("y", n)) : n \in CkptSeqs}

ExecuteNext ==
    /\ \E seq \in DOMAIN States :
         /\ seq = LastSequenceID(CommittedMsgs) + 1
         /\ Becomes(executeMsg(Node, MyInfo, States[seq].ReqMsg))
    /\ UNCHANGED <<nNodes, TotalConsensus, histVars, clusterVars, extVars>>

GetCheckPoint ==
    /\ \E msg \in CkptMsgs : Becomes(CheckPoint(Node, MyInfo, msg))
    /\ UNCHANGED <<nNodes, TotalConsensus, histVars, clusterVars, extVars>>

NextCkpt ==
    \/ GetReq
    \/ ExecuteNext
    \/ GetCheckPoint

SpecCkpt == InitNode /\ [][NextCkpt]_vars

(***************************************************************************)
(* A cluster of n = 4 nodes in view 0, one sequence number.  The primary   *)
(* R0 is faulty: it sends any PRE-PREPARE, PREPARE and COMMIT of its own   *)
(* to any node, any number of times.  R1 and R2 are not faulty and run the *)
(* handlers; R3 is not faulty either, and slow: nothing reaches it or      *)
(* comes from it yet.  The client's request reaches every node.  A message *)
(* whose handler returns an error goes back to MsgEntrance (resolveMsg),   *)
(* so it stays in net.                                                     *)
(* OnPrePrepare and OnVote take the message `from` net (a set of at most   *)
(* one copy; empty when the faulty node sends it) and count it in `nf`.    *)
(***************************************************************************)
Faulty == "R0"
Active == {"R1", "R2"}
ClusterSize == Len(NodeTable)

\* States and TotalConsensus of a node, the requests it has handed to its
\* executor, and how many messages of the faulty node it has handled.
NewReplica ==
    [States |-> EmptyRegistry, TotalConsensus |-> 0, committed |-> {}, fromFaulty |-> 0]

\* Broadcast(msg) by node r: one copy for each other active node.
Copies(r, msg) == {[to |-> q, msg |-> msg] : q \in Active \ {r}}

FaultyPrePrepares ==
    {PrePrepareMsg(ViewID0, 1, digest(r), r) : r \in InstRequests}
FaultyVotes ==
    {VoteMsg(ViewID0, 1, d, Faulty, type) :
        d \in InstDigests, type \in {PrepareMsg, CommitMsg}}

InitCluster ==
    /\ nNodes = ClusterSize
    /\ States = EmptyRegistry
    /\ TotalConsensus = 0
    /\ InitExecIdle
    /\ InitHistIdle
    /\ replicas = [r \in Active |-> NewReplica]
    /\ net = {}
    /\ InitExtIdle

\* resolveMsg of node r on a PRE-PREPARE.
OnPrePrepare(r, msg, from, nf) ==
    LET res == NodeGetPrePrepare(r, replicas[r].States, msg)
    IN /\ routePrePrepare(r)
       /\ replicas' = [replicas EXCEPT ![r].States = res.States,
                                       ![r].fromFaulty = @ + nf]
       /\ net' = (net \ from) \cup (IF res.err THEN from ELSE Copies(r, res.out))

\* resolveMsg of node r on a PREPARE or COMMIT vote.
OnVote(r, msg, from, nf) ==
    /\ routeVote(r, msg)
    /\ IF msg.MsgType = PrepareMsg
       THEN LET res == NodeGetPrepare(r, replicas[r].States, msg)
            IN /\ replicas' = [replicas EXCEPT ![r].States = res.States,
                                               ![r].fromFaulty = @ + nf]
               /\ net' = (net \ from)
                           \cup (IF res.err THEN from ELSE {})
                           \cup (IF res.out # NoMsg THEN Copies(r, res.out) ELSE {})
       ELSE LET res == NodeGetCommit(r, replicas[r].States, msg)
            IN /\ replicas' = [replicas EXCEPT
                                 ![r].States = res.States,
                                 ![r].fromFaulty = @ + nf,
                                 ![r].committed =
                                    IF res.out # NilReq THEN @ \cup {res.out} ELSE @]
               /\ net' = (net \ from) \cup (IF res.err THEN from ELSE {})

ClientRequest ==
    /\ \E r \in Active :
         /\ replicas[r].TotalConsensus = 0
         /\ LET res == NodeGetReq(replicas[r].States, nNodes,
                                  replicas[r].TotalConsensus, ExecOperation)
            IN replicas' = [replicas EXCEPT ![r].States = res.States,
                                            ![r].TotalConsensus = res.TotalConsensus]
    /\ UNCHANGED <<nodeVars, execVars, histVars, net, extVars>>

FaultyPrePrepare ==
    /\ \E r \in Active, msg \in FaultyPrePrepares :
         /\ replicas[r].fromFaulty < MaxFaultyMsgs
         /\ OnPrePrepare(r, msg, {}, 1)
    /\ UNCHANGED <<nodeVars, execVars, histVars, extVars>>

FaultyVote ==
    /\ \E r \in Active, msg \in FaultyVotes :
         /\ replicas[r].fromFaulty < MaxFaultyMsgs
         /\ OnVote(r, msg, {}, 1)
    /\ UNCHANGED <<nodeVars, execVars, histVars, extVars>>

Deliver ==
    /\ \E m \in net : OnVote(m.to, m.msg, {m}, 0)
    /\ UNCHANGED <<nodeVars, execVars, histVars, extVars>>

NextCluster ==
    \/ ClientRequest
    \/ FaultyPrePrepare
    \/ FaultyVote
    \/ Deliver

SpecCluster == InitCluster /\ [][NextCluster]_vars

(***************************************************************************)
(* Normal operation of a cluster of n = 4 nodes in view 0, none faulty,    *)
(* with one client request.  Every node runs GetReq on the request, the    *)
(* handlers on the messages broadcast to it, and its executor on the pairs *)
(* GetCommit hands to MsgExecution.  A message whose handler returns an    *)
(* error goes back to MsgEntrance: it stays in net.                        *)
(* R3 is silent (it handles and sends nothing, and is no key of replicas): *)
(* then the steps of R0, R1 and R2 come in any order.  Or R3 is not        *)
(* silent: then R2 and R3 are prompt (what they can do they do before R0   *)
(* and R1 take their next step), and the steps of R0 and R1, the           *)
(* deliveries of the messages of R2 and R3 to them included, come in any   *)
(* order.                                                                  *)
(***************************************************************************)
Silent == "R3"

LiveReplica ==
    [States |-> EmptyRegistry, TotalConsensus |-> 0, MsgExecution |-> <<>>,
     CommittedMsgs |-> <<>>, pairs |-> <<>>, MsgOutbound |-> <<>>,
     CheckPointSendPoint |-> 0, CheckPointMsgsLog |-> <<>>,
     StableCheckPoint |-> 0, event |-> NoEvent]

\* Broadcast(msg) by node r, as it reaches the nodes that are not silent.
LiveCopies(r, msg) == {[to |-> q, msg |-> msg] : q \in DOMAIN replicas \ {r}}

\* resolveMsg of node m.to on m.msg returns an error (and queues it again).
LiveErr(m) ==
    IF isPrePrepareMsg(m.msg)
    THEN NodeGetPrePrepare(m.to, replicas[m.to].States, m.msg).err
    ELSE IF isVoteMsg(m.msg, PrepareMsg)
    THEN NodeGetPrepare(m.to, replicas[m.to].States, m.msg).err
    ELSE NodeGetCommit(m.to, replicas[m.to].States, m.msg).err

\* The prompt nodes when R3 is not silent.
Prompt == IF Silent \in DOMAIN replicas THEN {"R2", Silent} ELSE {}

\* A prompt node has a step to take: a pair to execute or a message it can
\* handle.
PromptPending ==
    \E r \in Prompt :
        \/ replicas[r].MsgExecution # <<>>
        \/ \E m \in net : m.to = r /\ ~LiveErr(m)

\* Node r may take a step now.
LiveTurn(r) == r \in Prompt \/ ~PromptPending

InitLive ==
    /\ nNodes = ClusterSize
    /\ States = EmptyRegistry
    /\ TotalConsensus = 0
    /\ InitExecIdle
    /\ InitHistIdle
    /\ \E alive \in {NodeIDs, NodeIDs \ {Silent}} :
         replicas = [r \in alive |-> LiveReplica]
    /\ net = {}
    /\ InitExtIdle

\* The client's request reaches the nodes: GetReq at each of them; the
\* primary broadcasts the PRE-PREPARE.  One step for all the nodes: a handler
\* that runs at a node before its GetReq returns an error and changes
\* nothing (getState finds no State), so the order of the GetReq calls among
\* the other steps makes no difference.
LiveGetReq ==
    /\ \A r \in DOMAIN replicas : replicas[r].TotalConsensus = 0
    /\ LET res(r) == NodeGetReq(replicas[r].States, nNodes,
                                replicas[r].TotalConsensus, ExecOperation)
       IN /\ replicas' = [r \in DOMAIN replicas |->
                            [replicas[r] EXCEPT !.States = res(r).States,
                                                !.TotalConsensus = res(r).TotalConsensus]]
          /\ net' = UNION {IF isMyNodePrimary(r) THEN LiveCopies(r, res(r).out) ELSE {} :
                             r \in DOMAIN replicas}
    /\ UNCHANGED <<nodeVars, execVars, histVars, extVars>>

\* routeMsg and resolveMsg of node m.to on the PRE-PREPARE m.msg.
LiveGetPrePrepare ==
    /\ \E m \in net :
         /\ LiveTurn(m.to)
         /\ isPrePrepareMsg(m.msg)
         /\ routePrePrepare(m.to)
         /\ LET res == NodeGetPrePrepare(m.to, replicas[m.to].States, m.msg)
            IN /\ replicas' = [replicas EXCEPT ![m.to].States = res.States]
               /\ net' = IF res.err THEN net
                         ELSE (net \ {m}) \cup LiveCopies(m.to, res.out)
    /\ UNCHANGED <<nodeVars, execVars, histVars, extVars>>

\* routeMsg and resolveMsg of node m.to on the PREPARE m.msg.
LiveGetPrepare ==
    /\ \E m \in net :
         /\ LiveTurn(m.to)
         /\ isVoteMsg(m.msg, PrepareMsg)
         /\ routeVote(m.to, m.msg)
         /\ LET res == NodeGetPrepare(m.to, replicas[m.to].States, m.msg)
            IN /\ replicas' = [replicas EXCEPT ![m.to].States = res.States]
               /\ net' = (IF res.err THEN net ELSE net \ {m})
                           \cup (IF res.out # NoMsg
                                 THEN LiveCopies(m.to, res.out) ELSE {})
    /\ UNCHANGED <<nodeVars, execVars, histVars, extVars>>

\* routeMsg and resolveMsg of node m.to on the COMMIT m.msg.
LiveGetCommit ==
    /\ \E m \in net :
         /\ LiveTurn(m.to)
         /\ isVoteMsg(m.msg, CommitMsg)
         /\ routeVote(m.to, m.msg)
         /\ LET res == NodeGetCommit(m.to, replicas[m.to].States, m.msg)
            IN /\ replicas' = [replicas EXCEPT
                                 ![m.to].States = res.States,
                                 ![m.to].MsgExecution =
                                    IF res.out # NilReq THEN Append(@, res.out) ELSE @]
               /\ net' = IF res.err THEN net ELSE net \ {m}
    /\ UNCHANGED <<nodeVars, execVars, histVars, extVars>>

\* executeMsg of node r receives a pair from MsgExecution.
LiveExecute ==
    /\ \E r \in DOMAIN replicas :
         /\ LiveTurn(r)
         /\ replicas[r].MsgExecution # <<>>
         /\ LET nd == executeMsg(replicas[r], r, Head(replicas[r].MsgExecution))
            IN replicas' = [replicas EXCEPT
                              ![r] = [nd EXCEPT !.MsgExecution = Tail(@)]]
    /\ UNCHANGED <<nodeVars, execVars, histVars, net, extVars>>

NextLive ==
    \/ LiveGetReq
    \/ LiveGetPrePrepare
    \/ LiveGetPrepare
    \/ LiveGetCommit
    \/ LiveExecute

\* The goroutines are scheduled fairly and every message sent is delivered:
\* a step that can be taken is taken.
SpecLive == InitLive /\ [][NextLive]_vars /\ WF_vars(NextLive)

(***************************************************************************)
(* The view of one node, R2: StartViewChange, and the handlers of          *)
(* VIEW-CHANGE and NEW-VIEW messages.  ViewChangeState.ViewChange decides  *)
(* outside this code what GetViewChange gets back: any of nil, an error,   *)
(* or a NEW-VIEW message.  net holds the NEW-VIEW the node broadcast last. *)
(***************************************************************************)
ViewNode == "R2"
ViewIDs == 0..MaxView

\* The VIEW-CHANGE messages for view v of the first k nodes of the table.
ViewChangeSet(v, k) == {ViewChangeMsg(v, NodeTable[i]) : i \in 1..k}

\* NEW-VIEW messages: their set V holds 0, 2f or 2f+1 VIEW-CHANGE messages
\* for the view they announce, or 2f+1 for the view before (f = 1).
NewViewMsgs ==
    {NewViewMsg(v, Primary(v), ViewChangeSet(v, k)) : v \in ViewIDs, k \in {0, 2, 3}}
    \cup {NewViewMsg(v, Primary(v), ViewChangeSet(v - 1, 3)) : v \in ViewIDs \ {0}}

\* GetNewView: node.View after the call.
NodeGetNewView(view, msg) == updateView(msg.NextViewID)

\* GetViewChange, given what ViewChangeState.ViewChange returned (NoNewView
\* for nil): node.View after the call.
NodeGetViewChange(view, me, newView) ==
    IF newView # NoNewView /\ isPrimaryOf(view, me)
    THEN updateView(newView.NextViewID)
    ELSE view

InitView ==
    /\ nNodes = ClusterSize
    /\ States = EmptyRegistry
    /\ TotalConsensus = 0
    /\ InitExecIdle
    /\ InitHistIdle
    /\ InitClusterIdle
    /\ InitExtIdle

\* StartViewChange closes MsgEntrance (a second call would close it again)
\* and creates the ViewChangeState of the next view.
StartViewChange ==
    /\ ViewChangeState = <<>>
    /\ View.ID < MaxView
    /\ entranceClosed' = TRUE
    /\ ViewChangeState' = <<View.ID + 1>>
    /\ UNCHANGED <<nodeVars, execVars, histVars, clusterVars,
                   View, adopted, preparedAt, queueVars, resolvers,
                   started, StatesMutex, dispatchers, panicked>>

GetViewChange ==
    /\ ViewChangeState # <<>>
    /\ \E newView \in NewViewMsgs \cup {NoNewView} :
         /\ View' = NodeGetViewChange(View, ViewNode, newView)
         /\ net' = IF newView # NoNewView /\ isPrimaryOf(View, ViewNode)
                   THEN {[to |-> "/newview", msg |-> newView]}
                   ELSE net
    /\ UNCHANGED <<nodeVars, execVars, histVars, replicas,
                   ViewChangeState, adopted, preparedAt, queueVars, resolvers, raceVars>>

GetNewView ==
    /\ \E msg \in NewViewMsgs :
         /\ View' = NodeGetNewView(View, msg)
         /\ adopted' = IF View' # View THEN msg ELSE adopted
    /\ UNCHANGED <<nodeVars, execVars, histVars, clusterVars,
                   ViewChangeState, preparedAt, queueVars, resolvers, raceVars>>

NextView ==
    \/ StartViewChange
    \/ GetViewChange
    \/ GetNewView

SpecView == InitView /\ [][NextView]_vars

(***************************************************************************)
(* One instance across a view change, at node R2 (a backup in views 0 and  *)
(* 1): the handlers of resolveMsg on the request, on PRE-PREPAREs of view  *)
(* 0 for sequence number 1 and on votes of R0 and R1, the executor on the  *)
(* pair GetCommit hands over, and GetNewView on a NEW-VIEW for view 1 that *)
(* carries 2f+1 VIEW-CHANGE messages.                                      *)
(***************************************************************************)
PresVoters == {"R0", "R1"}
PresVotes(type) ==
    {VoteMsg(ViewID0, 1, d, id, type) : d \in InstDigests, id \in PresVoters}

\* The instance of sequence number 1 is prepared and not executed: its
\* stage is Prepared, a PRE-PREPARE was accepted for the digest d of its
\* request, and PREPAREs for d of 2f nodes are logged.  The value is d, or 0.
PreparedDigest ==
    IF /\ hasState(States, 1)
       /\ States[1].CurrentStage = Prepared
       /\ digest(States[1].ReqMsg) \in acceptedPP
       /\ Cardinality({k \in NodeIDs :
             \/ States[1].PrepareMsgs[k] = NilVote
             \/ /\ States[1].PrepareMsgs[k] \notin {NoVote, NilVote}
                /\ States[1].PrepareMsgs[k].Digest = digest(States[1].ReqMsg)})
            >= 2 * States[1].f
       /\ CommittedMsgs = <<>>
    THEN digest(States[1].ReqMsg)
    ELSE 0

PresGetReq ==
    /\ TotalConsensus = 0
    /\ \E op \in Operations :
         LET res == NodeGetReqIn(View, States, nNodes, TotalConsensus, op)
         IN /\ States' = res.States
            /\ TotalConsensus' = res.TotalConsensus
    /\ UNCHANGED <<nNodes, execVars, histVars, clusterVars, extVars>>

PresGetPrePrepare ==
    /\ ~isPrimaryOf(View, ViewNode)
    /\ \E msg \in FaultyPrePrepares :
         LET res == NodeGetPrePrepare(ViewNode, States, msg)
         IN /\ States' = res.States
            /\ acceptedPP' = IF res.err THEN acceptedPP
                             ELSE acceptedPP \cup {msg.Digest}
    /\ UNCHANGED <<nNodes, TotalConsensus, execVars, emitted, clusterVars, extVars>>

PresGetPrepare ==
    /\ \E msg \in PresVotes(PrepareMsg) :
         /\ routeVote(ViewNode, msg)
         /\ StateOf(States, msg.SequenceID).TotalPrepareMsg < MaxVotes
         /\ States' = NodeGetPrepare(ViewNode, States, msg).States
    /\ UNCHANGED <<nNodes, TotalConsensus, execVars, histVars, clusterVars, extVars>>

\* GetCommit, and executeMsg on the pair it hands to MsgExecution.
PresGetCommit ==
    /\ \E msg \in PresVotes(CommitMsg) :
         /\ routeVote(ViewNode, msg)
         /\ StateOf(States, msg.SequenceID).TotalCommitMsg < MaxVotes
         /\ LET res == NodeGetCommit(ViewNode, States, msg)
            IN IF res.out # NilReq
               THEN Becomes(executeMsg([Node EXCEPT !.States = res.States],
                                       ViewNode, res.out))
               ELSE /\ States' = res.States
                    /\ UNCHANGED execVars
    /\ UNCHANGED <<nNodes, TotalConsensus, histVars, clusterVars, extVars>>

PresGetNewView ==
    /\ View.ID = ViewID0
    /\ LET msg == NewViewMsg(View.ID + 1, Primary(View.ID + 1),
                             ViewChangeSet(View.ID + 1, 3))
       IN /\ View' = NodeGetNewView(View, msg)
          /\ adopted' = msg
          /\ preparedAt' = PreparedDigest
    /\ UNCHANGED <<nodeVars, execVars, histVars, clusterVars,
                   ViewChangeState, queueVars, resolvers, raceVars>>

NextPres ==
    \/ PresGetReq
    \/ PresGetPrePrepare
    \/ PresGetPrepare
    \/ PresGetCommit
    \/ PresGetNewView

SpecPres == InitView /\ [][NextPres]_vars

(***************************************************************************)
(* One instance at the backup R1 with the resolveMsg goroutines of NewNode *)
(* running Prepare and Commit at once.  A call takes three steps: the      *)
(* checks and the store of the vote under the mutex, the atomic add to the *)
(* counter, and the tests on the value the add returned and on prepared()  *)
(* or committed().  resolvers holds the calls under way: the vote, the     *)
(* step reached and the value the add returned.  net holds the votes not   *)
(* handled yet: one PREPARE and one COMMIT for the request from each of    *)
(* R0, R2 and R3; a vote whose call returns an error stays there.          *)
(***************************************************************************)
NumResolvers == 5
ConcVoters == {"R0", "R2", "R3"}
ConcVotes ==
    {VoteMsg(ViewID0, 1, digest(RequestMsg(ExecOperation, 1)), id, type) :
        id \in ConcVoters, type \in {PrepareMsg, CommitMsg}}

\* Prepare up to the store of the vote: the State after it, err when
\* verifyMsg fails.
PrepareStore(state, prepareMsg) ==
    IF ~verifyMsg(state, prepareMsg.ViewID, prepareMsg.SequenceID, prepareMsg.Digest)
    THEN [st |-> state, err |-> TRUE]
    ELSE [st |-> [state EXCEPT !.PrepareMsgs[prepareMsg.NodeID] = prepareMsg],
          err |-> FALSE]

\* Commit up to the store of the vote.
CommitStore(state, commitMsg) ==
    IF ~prepared(state)
    THEN [st |-> state, err |-> TRUE]
    ELSE IF ~verifyMsg(state, commitMsg.ViewID, commitMsg.SequenceID, commitMsg.Digest)
    THEN [st |-> state, err |-> TRUE]
    ELSE [st |-> [state EXCEPT !.CommitMsgs[commitMsg.NodeID] = commitMsg],
          err |-> FALSE]

\* The atomic adds.
PrepareAdd(state) == [state EXCEPT !.TotalPrepareMsg = @ + 1]
CommitAdd(state) == [state EXCEPT !.TotalCommitMsg = @ + 1]

\* Prepare from the test of the value the add returned.
PrepareDecide(state, newTotalPrepareMsg, prepareMsg) ==
    IF PastPrepared(newTotalPrepareMsg, state.f)
    THEN [st |-> state, out |-> NoMsg]
    ELSE IF prepared(state)
    THEN [st |-> [state EXCEPT !.CurrentStage = Prepared],
          out |-> VoteMsg(state.ViewID, prepareMsg.SequenceID,
                          prepareMsg.Digest, "", CommitMsg)]
    ELSE [st |-> state, out |-> NoMsg]

\* Commit from the test of the value the add returned.
CommitDecide(state, newTotalCommitMsg) ==
    IF newTotalCommitMsg > 2 * state.f
    THEN [st |-> state, out |-> NilReq]
    ELSE IF committed(state)
    THEN [st |-> [state EXCEPT !.CurrentStage = Committed], out |-> state.ReqMsg]
    ELSE [st |-> state, out |-> NilReq]

InitConc ==
    /\ nNodes \in TotNodes
    /\ States = EmptyRegistry
    /\ TotalConsensus = 0
    /\ InitExecIdle
    /\ InitHistIdle
    /\ replicas = <<>>
    /\ net = ConcVotes
    /\ View = updateView(ViewID0)
    /\ ViewChangeState = <<>>
    /\ adopted = NoNewView
    /\ preparedAt = 0
    /\ MsgEntrance = <<>>
    /\ MsgDelivery = <<>>
    /\ resolvers = {}
    /\ InitRaceIdle

ConcGetReq ==
    /\ TotalConsensus = 0
    /\ LET res == NodeGetReq(States, nNodes, TotalConsensus, ExecOperation)
       IN /\ States' = res.States
          /\ TotalConsensus' = res.TotalConsensus
    /\ UNCHANGED <<nNodes, execVars, histVars, clusterVars, extVars>>

\* A resolver receives a vote from MsgDelivery and runs its handler up to
\* the store of the vote.
ConcStore ==
    /\ Cardinality(resolvers) < NumResolvers
    /\ \E msg \in net :
         /\ routeVote(MyInfo, msg)
         /\ hasState(States, msg.SequenceID)
         /\ LET res == IF msg.MsgType = PrepareMsg
                       THEN PrepareStore(States[msg.SequenceID], msg)
                       ELSE CommitStore(States[msg.SequenceID], msg)
            IN /\ ~res.err
               /\ States' = [States EXCEPT ![msg.SequenceID] = res.st]
               /\ resolvers' = resolvers \cup {[msg |-> msg, pc |-> "stored", newTotal |-> 0]}
               /\ net' = net \ {msg}
    /\ UNCHANGED <<nNodes, TotalConsensus, execVars, histVars, replicas,
                   viewVars, queueVars, raceVars>>

ConcAdd ==
    /\ \E r \in resolvers :
         /\ r.pc = "stored"
         /\ LET seq == r.msg.SequenceID
                st1 == IF r.msg.MsgType = PrepareMsg
                       THEN PrepareAdd(States[seq]) ELSE CommitAdd(States[seq])
                newTotal == IF r.msg.MsgType = PrepareMsg
                            THEN st1.TotalPrepareMsg ELSE st1.TotalCommitMsg
            IN /\ States' = [States EXCEPT ![seq] = st1]
               /\ resolvers' = (resolvers \ {r})
                                 \cup {[r EXCEPT !.pc = "added", !.newTotal = newTotal]}
    /\ UNCHANGED <<nNodes, TotalConsensus, execVars, histVars, clusterVars,
                   viewVars, queueVars, raceVars>>

ConcDecide ==
    /\ \E r \in resolvers :
         /\ r.pc = "added"
         /\ LET seq == r.msg.SequenceID
            IN IF r.msg.MsgType = PrepareMsg
               THEN LET res == PrepareDecide(States[seq], r.newTotal, r.msg)
                    IN /\ States' = [States EXCEPT ![seq] = res.st]
                       /\ emitted' = [emitted EXCEPT
                                        !.commits = @ + (IF res.out # NoMsg THEN 1 ELSE 0)]
               ELSE LET res == CommitDecide(States[seq], r.newTotal)
                    IN /\ States' = [States EXCEPT ![seq] = res.st]
                       /\ emitted' = [emitted EXCEPT
                                        !.pairs = @ + (IF res.out # NilReq THEN 1 ELSE 0)]
         /\ resolvers' = resolvers \ {r}
    /\ UNCHANGED <<nNodes, TotalConsensus, execVars, acceptedPP, clusterVars,
                   viewVars, queueVars, raceVars>>

NextConc ==
    \/ ConcGetReq
    \/ ConcStore
    \/ ConcAdd
    \/ ConcDecide

SpecConc == InitConc /\ [][NextConc]_vars

(***************************************************************************)
(* The dispatcher and the resolver of the backup R1 on the channels        *)
(* MsgEntrance and MsgDelivery.  net holds the messages that have not      *)
(* reached the node yet: the client's request, the PRE-PREPARE for it, a   *)
(* PREPARE and a COMMIT for it, a PREPARE with another digest, a PREPARE   *)
(* of another view and a PREPARE for sequence number 2, which no request   *)
(* gets.  Each reaches MsgEntrance once, in any order.                     *)
(***************************************************************************)
QueueRequest == RequestMsg(ExecOperation, 0)
QueueDigest == digest(RequestMsg(ExecOperation, 1))
QueueMsgs ==
    {QueueRequest,
     PrePrepareMsg(ViewID0, 1, QueueDigest, RequestMsg(ExecOperation, 1)),
     VoteMsg(ViewID0, 1, QueueDigest, "R2", PrepareMsg),
     VoteMsg(ViewID0, 1, QueueDigest, "R0", CommitMsg),
     VoteMsg(ViewID0, 1, digest(RequestMsg("y", 1)), "R2", PrepareMsg),
     VoteMsg(1, 1, QueueDigest, "R3", PrepareMsg),
     VoteMsg(ViewID0, 2, QueueDigest, "R2", PrepareMsg)}

isRequestMsg(msg) == "Operation" \in DOMAIN msg

\* routeMsg: whether the message goes on to MsgDelivery.
routeMsg(me, msg) ==
    IF isRequestMsg(msg) THEN TRUE
    ELSE IF isPrePrepareMsg(msg) THEN routePrePrepare(me)
    ELSE routeVote(me, msg)

\* resolveMsg on one message: the registry and TotalConsensus after the
\* handler, and the error it returned.
resolveMsg(me, reg, totNodes, total, msg) ==
    IF isRequestMsg(msg)
    THEN LET res == NodeGetReq(reg, totNodes, total, msg.Operation)
         IN [States |-> res.States, TotalConsensus |-> res.TotalConsensus, err |-> FALSE]
    ELSE IF isPrePrepareMsg(msg)
    THEN LET res == NodeGetPrePrepare(me, reg, msg)
         IN [States |-> res.States, TotalConsensus |-> total, err |-> res.err]
    ELSE IF isVoteMsg(msg, PrepareMsg)
    THEN LET res == NodeGetPrepare(me, reg, msg)
         IN [States |-> res.States, TotalConsensus |-> total, err |-> res.err]
    ELSE LET res == NodeGetCommit(me, reg, msg)
         IN [States |-> res.States, TotalConsensus |-> total, err |-> res.err]

InitQueue ==
    /\ nNodes = ClusterSize
    /\ States = EmptyRegistry
    /\ TotalConsensus = 0
    /\ InitExecIdle
    /\ InitHistIdle
    /\ replicas = <<>>
    /\ net = QueueMsgs
    /\ InitExtIdle

\* A message reaches the node and is put on MsgEntrance.
QueueArrive ==
    /\ \E msg \in net :
         /\ net' = net \ {msg}
         /\ MsgEntrance' = Append(MsgEntrance, msg)
    /\ UNCHANGED <<nodeVars, execVars, histVars, replicas, viewVars,
                   MsgDelivery, resolvers, raceVars>>

\* dispatchMsg: receive from MsgEntrance, routeMsg.
QueueDispatch ==
    /\ MsgEntrance # <<>>
    /\ MsgEntrance' = Tail(MsgEntrance)
    /\ MsgDelivery' = IF routeMsg(MyInfo, Head(MsgEntrance))
                      THEN Append(MsgDelivery, Head(MsgEntrance))
                      ELSE MsgDelivery
    /\ UNCHANGED <<nodeVars, execVars, histVars, clusterVars, viewVars, resolvers, raceVars>>

\* resolveMsg: receive from MsgDelivery, run the handler, and send the
\* message into MsgEntrance again when the handler returned an error.
QueueResolve ==
    /\ MsgDelivery # <<>>
    /\ LET msg == Head(MsgDelivery)
           res == resolveMsg(MyInfo, States, nNodes, TotalConsensus, msg)
       IN /\ States' = res.States
          /\ TotalConsensus' = res.TotalConsensus
          /\ MsgDelivery' = Tail(MsgDelivery)
          /\ MsgEntrance' = IF res.err THEN Append(MsgEntrance, msg) ELSE MsgEntrance
    /\ UNCHANGED <<nNodes, execVars, histVars, clusterVars, viewVars, resolvers, raceVars>>

NextQueue ==
    \/ QueueArrive
    \/ QueueDispatch
    \/ QueueResolve

\* The dispatcher and resolver goroutines are scheduled fairly.
SpecQueue ==
    InitQueue /\ [][NextQueue]_vars /\ WF_vars(QueueDispatch) /\ WF_vars(QueueResolve)

(***************************************************************************)
(* GetReq on the resolveMsg goroutines of one node, several calls at once. *)
(* A call takes four steps: createState and startConsensus (the atomic add *)
(* to TotalConsensus and State.StartConsensus on the call's own State),    *)
(* StatesMutex.Lock, the insert into node.States, StatesMutex.Unlock.      *)
(* resolvers holds one record per call, the finished ones included: the    *)
(* number of the call in the order the requests were received, the         *)
(* operation, the step reached, the sequence number and the State.         *)
(***************************************************************************)
MaxCalls == 5

\* node.startConsensus with the value TotalConsensus had before the add.
startConsensusFetchAdd(state, reqMsg, total) ==
    LET newTotalConsensus == total
    IN [TotalConsensus |-> total + 1,
        res |-> StartConsensus(state, reqMsg, newTotalConsensus)]

\* node.startConsensus: the new TotalConsensus and what StartConsensus returns.
startConsensus(state, reqMsg, total) ==
    LET newTotalConsensus == total + 1
    IN [TotalConsensus |-> newTotalConsensus,
        res |-> StartConsensus(state, reqMsg, newTotalConsensus)]

\* sync.RWMutex: Lock and RLock return at once.
CanLock(mutex) == mutex.writer = NoCall /\ mutex.readers = {}
CanRLock(mutex) == mutex.writer = NoCall

Running(calls) == {r \in calls : r.pc # "done"}

InitSeq ==
    /\ nNodes = ClusterSize
    /\ States = EmptyRegistry
    /\ TotalConsensus = 0
    /\ InitExecIdle
    /\ InitHistIdle
    /\ InitClusterIdle
    /\ View = updateView(ViewID0)
    /\ ViewChangeState = <<>>
    /\ adopted = NoNewView
    /\ preparedAt = 0
    /\ MsgEntrance = <<>>
    /\ MsgDelivery = <<>>
    /\ resolvers = {}
    /\ InitRaceIdle

\* A resolver receives a request and runs GetReq up to the return of
\* node.startConsensus.
SeqStart ==
    /\ Cardinality(resolvers) < MaxCalls
    /\ Cardinality(Running(resolvers)) < NumResolvers
    /\ \E op \in Operations :
         LET call == Cardinality(resolvers) + 1
             got == startConsensus(createStateIn(View, nNodes), RequestMsg(op, 0),
                                   TotalConsensus)
         IN /\ TotalConsensus' = got.TotalConsensus
            /\ started' = Append(started, call)
            /\ resolvers' = resolvers \cup
                 {[call |-> call, op |-> op, pc |-> "started",
                   seq |-> got.res.out.SequenceID, st |-> got.res.st]}
    /\ UNCHANGED <<nNodes, States, execVars, histVars, clusterVars, viewVars,
                   queueVars, StatesMutex, dispatchers, entranceClosed, panicked>>

\* node.StatesMutex.Lock()
SeqLock ==
    /\ CanLock(StatesMutex)
    /\ \E r \in resolvers :
         /\ r.pc = "started"
         /\ StatesMutex' = [StatesMutex EXCEPT !.writer = r.call]
         /\ resolvers' = (resolvers \ {r}) \cup {[r EXCEPT !.pc = "locked"]}
    /\ UNCHANGED <<nodeVars, execVars, histVars, clusterVars, viewVars,
                   queueVars, started, dispatchers, entranceClosed, panicked>>

\* node.States[prePrepareMsg.SequenceID] = state
SeqInsert ==
    /\ \E r \in resolvers :
         /\ r.pc = "locked"
         /\ States' = (r.seq :> r.st) @@ States
         /\ resolvers' = (resolvers \ {r}) \cup {[r EXCEPT !.pc = "inserted"]}
    /\ UNCHANGED <<nNodes, TotalConsensus, execVars, histVars, clusterVars,
                   viewVars, queueVars, raceVars>>

\* node.StatesMutex.Unlock() and the rest of GetReq.
SeqUnlock ==
    /\ \E r \in resolvers :
         /\ r.pc = "inserted"
         /\ StatesMutex' = [StatesMutex EXCEPT !.writer = NoCall]
         /\ resolvers' = (resolvers \ {r}) \cup {[r EXCEPT !.pc = "done"]}
    /\ UNCHANGED <<nodeVars, execVars, histVars, clusterVars, viewVars,
                   queueVars, started, dispatchers, entranceClosed, panicked>>

NextSeq ==
    \/ SeqStart
    \/ SeqLock
    \/ SeqInsert
    \/ SeqUnlock

SpecSeq == InitSeq /\ [][NextSeq]_vars

(***************************************************************************)
(* The registry node.States of the backup R1 and the goroutines that use   *)
(* it.  resolveMsg goroutines run GetReq (as above), the lookup getState   *)
(* of a vote handler, and GetCheckPoint, whose CheckPoint is taken in two  *)
(* steps: up to the mark CheckPointState = 1, and the two delete loops     *)
(* with the update of StableCheckPoint.  The executor runs executeMsg on   *)
(* the requests in sequence order, with its own CHECKPOINT at sequence     *)
(* number 5.  StartViewChange is called once and ranges over node.States.  *)
(* An insert by GetReq while a delete loop or a range over the map is      *)
(* under way on another goroutine is a data race on the map: the insert    *)
(* takes effect, or it is lost, or the runtime stops the process.          *)
(***************************************************************************)
LockRequests == periodCheckPoint + 1
LockMsgs ==
    {CheckPointMsg(periodCheckPoint, id, RequestMsg(ExecOperation, periodCheckPoint)) :
        id \in {"R0", "R2"}}
LookupSeqs == {1, LockRequests}

\* CheckPoint up to the mark: the node after it, and whether the delete
\* loops follow.
CheckPointMark(nd, me, msg) ==
    LET seq == msg.SequenceID
        log1 == (seq :> [LogOf(nd.CheckPointMsgsLog, seq) EXCEPT ![msg.NodeID] = msg.Digest])
                   @@ nd.CheckPointMsgsLog
        nd1 == [nd EXCEPT !.CheckPointMsgsLog = log1]
    IN IF Checkpointchk(nd1, me, seq) /\ nd1.States[seq].CheckPointState = 0
       THEN [nd |-> [nd1 EXCEPT !.States[seq].CheckPointState = 1], purge |-> TRUE]
       ELSE [nd |-> nd1, purge |-> FALSE]

\* CheckPoint from the delete loops on.
CheckPointPurge(nd, msg) ==
    LET fStableCheckPoint == NextStableCheckPoint(nd.StableCheckPoint, msg)
    IN [nd EXCEPT
          !.CheckPointMsgsLog =
              Restrict(@, {v \in DOMAIN @ : ~(v < fStableCheckPoint)}),
          !.States =
              Restrict(@, {v \in DOMAIN @ : ~(v < fStableCheckPoint)}),
          !.StableCheckPoint = fStableCheckPoint]

\* A goroutine is in a delete loop or in a range over node.States.
Unlocked(calls) == {r \in calls : r.pc \in {"purging", "ranging"}}

InitLock ==
    /\ nNodes = ClusterSize
    /\ States = EmptyRegistry
    /\ TotalConsensus = 0
    /\ InitExecIdle
    /\ InitHistIdle
    /\ replicas = <<>>
    /\ net = LockMsgs
    /\ View = updateView(ViewID0)
    /\ ViewChangeState = <<>>
    /\ adopted = NoNewView
    /\ preparedAt = 0
    /\ MsgEntrance = <<>>
    /\ MsgDelivery = <<>>
    /\ resolvers = {}
    /\ InitRaceIdle

\* GetReq up to the return of node.startConsensus.
LockStart ==
    /\ ~panicked
    /\ TotalConsensus < LockRequests
    /\ Cardinality(Running(resolvers)) < NumResolvers
    /\ LET got == startConsensus(createStateIn(View, nNodes),
                                 RequestMsg(ExecOperation, 0), TotalConsensus)
       IN /\ TotalConsensus' = got.TotalConsensus
          /\ started' = Append(started, got.TotalConsensus)
          /\ resolvers' = resolvers \cup
               {[call |-> got.TotalConsensus, op |-> ExecOperation, pc |-> "started",
                 seq |-> got.res.out.SequenceID, st |-> got.res.st]}
    /\ UNCHANGED <<nNodes, States, execVars, histVars, clusterVars, viewVars,
                   queueVars, StatesMutex, dispatchers, entranceClosed, panicked>>

\* The insert of GetReq.
LockInsert ==
    /\ ~panicked
    /\ \E r \in resolvers :
         /\ r.pc = "locked"
         /\ resolvers' = (resolvers \ {r}) \cup {[r EXCEPT !.pc = "inserted"]}
         /\ IF Unlocked(resolvers) = {}
            THEN /\ States' = (r.seq :> r.st) @@ States
                 /\ UNCHANGED panicked
            ELSE \/ /\ States' = (r.seq :> r.st) @@ States
                    /\ UNCHANGED panicked
                 \/ /\ r.seq \notin DOMAIN States
                    /\ UNCHANGED <<States, panicked>>
                 \/ /\ panicked' = TRUE
                    /\ UNCHANGED States
    /\ UNCHANGED <<nNodes, TotalConsensus, execVars, histVars, clusterVars,
                   viewVars, queueVars, started, StatesMutex, dispatchers,
                   entranceClosed>>

\* getState: RLock and the read of node.States[sequenceID].
LockGetState ==
    /\ ~panicked
    /\ CanRLock(StatesMutex)
    /\ Cardinality(Running(resolvers)) < NumResolvers
    /\ \E seq \in LookupSeqs \ StatesMutex.readers :
         /\ StatesMutex' = [StatesMutex EXCEPT !.readers = @ \cup {seq}]
         /\ resolvers' = resolvers \cup {[lookup |-> seq, pc |-> "reading"]}
    /\ UNCHANGED <<nodeVars, execVars, histVars, clusterVars, viewVars,
                   queueVars, started, dispatchers, entranceClosed, panicked>>

\* getState: RUnlock.
LockGetStateDone ==
    /\ ~panicked
    /\ \E r \in resolvers :
         /\ r.pc = "reading"
         /\ StatesMutex' = [StatesMutex EXCEPT !.readers = @ \ {r.lookup}]
         /\ resolvers' = resolvers \ {r}
    /\ UNCHANGED <<nodeVars, execVars, histVars, clusterVars, viewVars,
                   queueVars, started, dispatchers, entranceClosed, panicked>>

\* GetCheckPoint: CheckPoint up to the mark.
LockCheckPoint ==
    /\ ~panicked
    /\ Cardinality(Running(resolvers)) < NumResolvers
    /\ \E msg \in net :
         LET res == CheckPointMark(Node, MyInfo, msg)
         IN /\ Becomes(res.nd)
            /\ net' = net \ {msg}
            /\ resolvers' = IF res.purge
                            THEN resolvers \cup {[ckpt |-> msg, pc |-> "purging"]}
                            ELSE resolvers
    /\ UNCHANGED <<nNodes, TotalConsensus, histVars, replicas, viewVars,
                   queueVars, raceVars>>

\* GetCheckPoint: the delete loops of CheckPoint and the new StableCheckPoint.
LockCheckPointPurge ==
    /\ ~panicked
    /\ \E r \in resolvers :
         /\ r.pc = "purging"
         /\ Becomes(CheckPointPurge(Node, r.ckpt))
         /\ resolvers' = resolvers \ {r}
    /\ UNCHANGED <<nNodes, TotalConsensus, histVars, clusterVars, viewVars,
                   queueVars, raceVars>>

\* StartViewChange up to the range over node.States.
LockStartViewChange ==
    /\ ~panicked
    /\ ~entranceClosed
    /\ entranceClosed' = TRUE
    /\ ViewChangeState' = <<View.ID + 1>>
    /\ resolvers' = resolvers \cup {[view |-> View.ID + 1, pc |-> "ranging"]}
    /\ UNCHANGED <<nodeVars, execVars, histVars, clusterVars, View, adopted,
                   preparedAt, queueVars, started, StatesMutex, dispatchers,
                   panicked>>

\* StartViewChange from the end of the range on.
LockStartViewChangeDone ==
    /\ ~panicked
    /\ \E r \in resolvers :
         /\ r.pc = "ranging"
         /\ resolvers' = resolvers \ {r}
    /\ UNCHANGED <<nodeVars, execVars, histVars, clusterVars, viewVars,
                   queueVars, raceVars>>

\* The steps of the spec above in a process that has not been stopped.
LockLock == ~panicked /\ SeqLock
LockUnlock == ~panicked /\ SeqUnlock
LockExecute == ~panicked /\ ExecuteNext

NextLock ==
    \/ LockStart
    \/ LockLock
    \/ LockInsert
    \/ LockUnlock
    \/ LockGetState
    \/ LockGetStateDone
    \/ LockExecute
    \/ LockCheckPoint
    \/ LockCheckPointPurge
    \/ LockStartViewChange
    \/ LockStartViewChangeDone

SpecLock == InitLock /\ [][NextLock]_vars

(***************************************************************************)
(* The channels MsgEntrance and MsgDelivery of the backup R1 with their    *)
(* capacity, and the dispatchMsg and resolveMsg goroutines of NewNode.  A  *)
(* send on a full channel blocks: the goroutine keeps its message until    *)
(* there is room.  dispatchers holds the messages the dispatchers have     *)
(* received and not yet sent to MsgDelivery; resolvers holds the messages  *)
(* whose handler returned an error and that are not yet sent to            *)
(* MsgEntrance again (the error itself goes to MsgError, which             *)
(* logErrorMsg receives).  The client's request reaches the node once; a   *)
(* PREPARE from R2 for sequence number 2, which has no State, reaches it   *)
(* any number of times.                                                    *)
(***************************************************************************)
NumDispatchers == NumResolvers
ChanCap(totNodes) == totNodes * 3
PipeVote == VoteMsg(ViewID0, 2, QueueDigest, "R2", PrepareMsg)

\* The sequence without its i-th element.
Without(seq, i) == SubSeq(seq, 1, i - 1) \o SubSeq(seq, i + 1, Len(seq))

InitPipe ==
    /\ nNodes = ClusterSize
    /\ States = EmptyRegistry
    /\ TotalConsensus = 0
    /\ InitExecIdle
    /\ InitHistIdle
    /\ replicas = <<>>
    /\ net = {QueueRequest}
    /\ InitExtIdle

\* A message reaches the node and is sent to MsgEntrance.
PipeArrive ==
    /\ Len(MsgEntrance) < ChanCap(nNodes)
    /\ \E msg \in net \cup {PipeVote} :
         /\ net' = net \ {msg}
         /\ MsgEntrance' = Append(MsgEntrance, msg)
    /\ UNCHANGED <<nodeVars, execVars, histVars, replicas, viewVars,
                   MsgDelivery, resolvers, raceVars>>

\* dispatchMsg: a dispatcher receives from MsgEntrance and enters routeMsg.
PipeReceive ==
    /\ Len(dispatchers) < NumDispatchers
    /\ MsgEntrance # <<>>
    /\ MsgEntrance' = Tail(MsgEntrance)
    /\ dispatchers' = IF routeMsg(MyInfo, Head(MsgEntrance))
                      THEN Append(dispatchers, Head(MsgEntrance))
                      ELSE dispatchers
    /\ UNCHANGED <<nodeVars, execVars, histVars, clusterVars, viewVars,
                   MsgDelivery, resolvers, started, StatesMutex, entranceClosed,
                   panicked>>

\* routeMsg: the send to MsgDelivery.
PipeRoute ==
    /\ Len(MsgDelivery) < ChanCap(nNodes)
    /\ \E i \in DOMAIN dispatchers :
         /\ MsgDelivery' = Append(MsgDelivery, dispatchers[i])
         /\ dispatchers' = Without(dispatchers, i)
    /\ UNCHANGED <<nodeVars, execVars, histVars, clusterVars, viewVars,
                   MsgEntrance, resolvers, started, StatesMutex, entranceClosed,
                   panicked>>

\* resolveMsg: a resolver receives from MsgDelivery and runs the handler.
PipeResolve ==
    /\ Len(resolvers) < NumResolvers
    /\ MsgDelivery # <<>>
    /\ LET msg == Head(MsgDelivery)
           res == resolveMsg(MyInfo, States, nNodes, TotalConsensus, msg)
       IN /\ States' = res.States
          /\ TotalConsensus' = res.TotalConsensus
          /\ MsgDelivery' = Tail(MsgDelivery)
          /\ resolvers' = IF res.err THEN Append(resolvers, msg) ELSE resolvers
    /\ UNCHANGED <<nNodes, execVars, histVars, clusterVars, viewVars,
                   MsgEntrance, raceVars>>

\* resolveMsg: the send of the message into MsgEntrance.
PipeRequeue ==
    /\ Len(MsgEntrance) < ChanCap(nNodes)
    /\ \E i \in DOMAIN resolvers :
         /\ MsgEntrance' = Append(MsgEntrance, resolvers[i])
         /\ resolvers' = Without(resolvers, i)
    /\ UNCHANGED <<nodeVars, execVars, histVars, clusterVars, viewVars,
                   MsgDelivery, raceVars>>

NextPipe ==
    \/ PipeArrive
    \/ PipeReceive
    \/ PipeRoute
    \/ PipeResolve
    \/ PipeRequeue

SpecPipe == InitPipe /\ [][NextPipe]_vars

(***************************************************************************)
(* The dispatcher and the resolver of the backup R1 as above, with         *)
(* StartViewChange, which closes MsgEntrance.  After the close nothing     *)
(* arrives any more; dispatchMsg still receives what the channel holds.  A *)
(* send on a closed channel panics, which ends the process.                *)
(***************************************************************************)
CloseArrive == ~panicked /\ ~entranceClosed /\ QueueArrive
CloseDispatch == ~panicked /\ QueueDispatch
CloseStartViewChange == ~panicked /\ StartViewChange

\* resolveMsg: receive from MsgDelivery, run the handler, and send the
\* message into MsgEntrance when the handler returned an error.
CloseResolve ==
    /\ ~panicked
    /\ MsgDelivery # <<>>
    /\ LET msg == Head(MsgDelivery)
           res == resolveMsg(MyInfo, States, nNodes, TotalConsensus, msg)
       IN /\ States' = res.States
          /\ TotalConsensus' = res.TotalConsensus
          /\ MsgDelivery' = Tail(MsgDelivery)
          /\ MsgEntrance' = IF res.err /\ ~entranceClosed
                            THEN Append(MsgEntrance, msg) ELSE MsgEntrance
          /\ panicked' = (res.err /\ entranceClosed)
    /\ UNCHANGED <<nNodes, execVars, histVars, clusterVars, viewVars, resolvers,
                   started, StatesMutex, dispatchers, entranceClosed>>

NextClose ==
    \/ CloseArrive
    \/ CloseDispatch
    \/ CloseResolve
    \/ CloseStartViewChange

SpecClose == InitQueue /\ [][NextClose]_vars

(***************************************************************************)
(* Claims on one instance.                                                 *)
(***************************************************************************)
\* The nodes whose entry in a vote map is a vote for the State's (v, n, d);
\* the nil entry CreateState stores for the primary counts as one.
MatchingVoters(st, votes) ==
    {k \in NodeIDs :
        \/ votes[k] = NilVote
        \/ /\ votes[k] \notin {NoVote, NilVote}
           /\ votes[k].ViewID = st.ViewID
           /\ votes[k].SequenceID = st.SequenceID
           /\ votes[k].Digest = digest(st.ReqMsg)}

\* C4: whenever GetPrepare emits the COMMIT (the instance advances to
\* PREPARED), the instance holds a PRE-PREPARE accepted for the digest of its
\* request, and PREPARE votes for (v, n, d) from at least 2f distinct nodes,
\* the primary's seeded entry counting as one.
C4_CommitOnlyWithPreparedCertificate ==
    [][emitted'.commits > emitted.commits =>
         /\ States'[1].ReqMsg # NilReq
         /\ digest(States'[1].ReqMsg) \in acceptedPP
         /\ Cardinality(MatchingVoters(States'[1], States'[1].PrepareMsgs))
              >= 2 * States'[1].f]_vars

\* C5: whenever GetCommit hands the (reply, request) pair on, the stage was
\* PREPARED before the call and the COMMIT votes for (v, n, d) it holds, the
\* replica's own included, come from at least 2f+1 distinct nodes.
C5_PairOnlyWithCommittedCertificate ==
    [][emitted'.pairs > emitted.pairs =>
         /\ States[1].CurrentStage = Prepared
         /\ Cardinality(MatchingVoters(States'[1], States'[1].CommitMsgs) \cup {MyInfo})
              >= 2 * States'[1].f + 1]_vars

StageRank(s) ==
    CASE s = Idle -> 0
      [] s = PrePrepared -> 1
      [] s = Prepared -> 2
      [] s = Committed -> 3

\* C7: no handler call lowers the stage of an instance along the order IDLE,
\* PRE_PREPARED, PREPARED, COMMITTED.
C7_StageNeverRegresses ==
    [][\A k \in DOMAIN States \cap DOMAIN States' :
          StageRank(States'[k].CurrentStage) >= StageRank(States[k].CurrentStage)]_vars

\* C8: at most one PRE-PREPARE digest is ever accepted for (v, n) = (0, 1),
\* and once one is accepted the stored request stays the one it carried.
C8_OnePrePreparePerSequence ==
    /\ Cardinality(acceptedPP) <= 1
    /\ (hasState(States, 1) /\ acceptedPP # {} =>
          digest(States[1].ReqMsg) \in acceptedPP)

\* C16: with the votes of one instance handled by several resolvers at
\* once, each vote once, at most one Commit call returns the pair and at
\* most one Prepare call returns the COMMIT.
C16_QuorumFiresOnce ==
    /\ emitted.pairs <= 1
    /\ emitted.commits <= 1

\* C17: in every instance TotalPrepareMsg is the number of node IDs that are
\* keys of PrepareMsgs, and TotalCommitMsg the number of those of CommitMsgs.
C17_VoteCountIsDistinctNodes ==
    \A k \in DOMAIN States :
        /\ States[k].TotalPrepareMsg = Cardinality(MapKeys(States[k].PrepareMsgs))
        /\ States[k].TotalCommitMsg = Cardinality(MapKeys(States[k].CommitMsgs))

\* C18: a PrePrepare, Prepare or Commit call that returns an error leaves the
\* instance as it was: request, sequence number, stage, vote maps, counters.
C18_RejectedLeavesNoChange ==
    /\ \A msg \in InstPrePrepares :
         NodeGetPrePrepare(MyInfo, States, msg).err =>
             NodeGetPrePrepare(MyInfo, States, msg).States = States
    /\ \A msg \in InstVotes(PrepareMsg) :
         NodeGetPrepare(MyInfo, States, msg).err =>
             NodeGetPrepare(MyInfo, States, msg).States = States
    /\ \A msg \in InstVotes(CommitMsg) :
         NodeGetCommit(MyInfo, States, msg).err =>
             NodeGetCommit(MyInfo, States, msg).States = States

(***************************************************************************)
(* Claims on the executor.                                                 *)
(***************************************************************************)
\* C2: the committed log holds sequence number i at its i-th place (1-based),
\* so it has no gap and no repeated sequence number.
C2_OrderedExecution ==
    \A i \in 1..Len(CommittedMsgs) : CommittedMsgs[i].SequenceID = i

\* Pairs have reached the executor out of order and more than once: one waits
\* for a gap to fill, one is of a sequence number already executed.
C2_Witness ==
    /\ Len(CommittedMsgs) >= 2
    /\ \E k \in DOMAIN pairs : k > Len(CommittedMsgs) + 1
    /\ \E k \in DOMAIN pairs : k <= Len(CommittedMsgs)

Replies == SelectSeq(MsgOutbound, LAMBDA m : m.Path = "/reply")

\* C3: the i-th REPLY broadcast is the reply of sequence number i: the reply
\* of n goes out at most once, and after those of 1..n-1.
C3_RepliesOnceInOrder ==
    \A i \in 1..Len(Replies) : Replies[i].SequenceID = i

\* The pair of a sequence number whose reply is out was handed over again
\* (it lies in pairs: the executor deletes the pair it executes), replies of
\* later sequence numbers have gone out, and the pair of a later sequence
\* number waits behind a gap.
C3_Witness ==
    /\ \E k \in DOMAIN pairs : k < Len(Replies)
    /\ \E k \in DOMAIN pairs : k > Len(Replies) + 1

CheckPointsOut == SelectSeq(MsgOutbound, LAMBDA m : m.Path = "/checkpoint")

\* C19: the node has emitted one CHECKPOINT for every positive multiple of
\* the period it has executed and no other, the i-th being that of sequence
\* number i * period; each follows the REPLY of its sequence number
\* directly, and is in the node's own checkpoint log.
C19_CheckPointEveryPeriod ==
    /\ Len(CheckPointsOut) = Len(CommittedMsgs) \div periodCheckPoint
    /\ \A i \in 1..Len(CheckPointsOut) :
         /\ CheckPointsOut[i].SequenceID = i * periodCheckPoint
         /\ LogOf(CheckPointMsgsLog, i * periodCheckPoint)[MyInfo] # NoCheckPoint
    /\ \A j \in 1..Len(MsgOutbound) :
         MsgOutbound[j].Path = "/checkpoint" =>
             /\ j > 1
             /\ MsgOutbound[j - 1] =
                  Reply(RequestMsg(ExecOperation, MsgOutbound[j].SequenceID))

\* Two CHECKPOINTs are out, and the pair of an executed sequence number has
\* reached the executor again.
C19_Witness ==
    /\ Len(CheckPointsOut) >= 2
    /\ Len(CommittedMsgs) >= 2 * periodCheckPoint
    /\ \E k \in DOMAIN pairs : k <= Len(CommittedMsgs)

(***************************************************************************)
(* Claims on the checkpoints.                                              *)
(***************************************************************************)
\* C9: a checkpoint is marked stable only when the log holds the node's own
\* CHECKPOINT for it and CHECKPOINTs with that same digest from at least 2f+1
\* distinct nodes.
C9_StableOnlyWithMatchingQuorum ==
    event # NoEvent =>
        /\ event.log[MyInfo] # NoCheckPoint
        /\ Cardinality({k \in NodeIDs : event.log[k] = event.log[MyInfo]})
             >= 2 * event.f + 1

\* C10: when the checkpoint of sequence number S is marked stable,
\* StableCheckPoint is S right after.
C10_StableCheckPointIsSequence ==
    event # NoEvent => event.StableCheckPoint = event.SequenceID

\* C11: once a checkpoint has been marked stable, at sequence number S, the
\* registry node.States holds no key <= S and CheckPointMsgsLog no key < S,
\* also after CHECKPOINT messages of old sequence numbers have arrived.
C11_CheckpointTruncation ==
    event # NoEvent =>
        /\ \A k \in DOMAIN States : k > event.SequenceID
        /\ \A k \in DOMAIN CheckPointMsgsLog : k >= event.SequenceID

ViewChangers(msg) == {vc.NodeID : vc \in {x \in msg.V : x.NextViewID = msg.NextViewID}}

\* C14: the NEW-VIEW message on which the node changed its view carried
\* VIEW-CHANGE messages for that view from at least 2f+1 nodes (f = 1).
C14_NewViewOnlyWithQuorum ==
    adopted # NoNewView => Cardinality(ViewChangers(adopted)) >= 2 * 1 + 1

\* C15: a request prepared at (view 0, sequence number 1) with digest d when
\* the view changes is not executed at sequence number 1 with another
\* digest.
C15_ViewChangePreservation ==
    preparedAt # 0 =>
        \A i \in 1..Len(CommittedMsgs) :
            CommittedMsgs[i].SequenceID = 1 => digest(CommittedMsgs[i]) = preparedAt

(***************************************************************************)
(* Claims on the dispatcher and the resolver.                              *)
(***************************************************************************)
\* C20: every message is eventually out of MsgEntrance and MsgDelivery for
\* good, the ones whose handler returns an error included: none goes round
\* between the resolver and the dispatcher forever.
C20_FailedEventuallyDropped ==
    <>[](MsgEntrance = <<>> /\ MsgDelivery = <<>>)

(***************************************************************************)
(* Claims on concurrent GetReq calls.                                      *)
(***************************************************************************)
CallOf(call) == CHOOSE r \in resolvers : r.call = call

\* C21: the k-th GetReq call to run startConsensus gets sequence number k,
\* no two calls get the same sequence number, and the instance a call has
\* put into node.States stays the instance of that call's request.
C21_SequenceNumbersDense ==
    /\ TotalConsensus = Len(started)
    /\ \A k \in DOMAIN started : CallOf(started[k]).seq = k
    /\ \A r1, r2 \in resolvers : r1.call # r2.call => r1.seq # r2.seq
    /\ \A r \in resolvers :
         r.pc \in {"inserted", "done"} =>
            /\ hasState(States, r.seq)
            /\ States[r.seq].SequenceID = r.seq
            /\ States[r.seq].ReqMsg = RequestMsg(r.op, r.seq)

\* Every call has run startConsensus, and one that got the higher sequence
\* number has registered its instance while one with a lower number, for
\* another operation, has not taken the lock yet.
C21_Witness ==
    /\ Len(started) = MaxCalls
    /\ \E r1, r2 \in resolvers :
         /\ r1.pc = "done" /\ r2.pc = "started"
         /\ r1.seq > r2.seq
         /\ r1.op # r2.op

\* C22: a goroutine that reads node.States holds RLock, one that inserts
\* or deletes holds Lock, and no delete loop of CheckPoint or range of
\* StartViewChange is under way while a GetReq call is at its insert.
C22_RegistryLockDiscipline ==
    /\ \A r \in resolvers :
         /\ r.pc \in {"locked", "inserted"} => StatesMutex.writer = r.call
         /\ r.pc = "reading" => r.lookup \in StatesMutex.readers
         /\ r.pc = "ranging" => StatesMutex.readers # {}
         /\ r.pc = "purging" => StatesMutex.writer # NoCall
    /\ \A r1, r2 \in resolvers :
         ~(r1.pc = "locked" /\ r2.pc \in {"purging", "ranging"})

\* C23: the pipeline never stops: it is never so that every dispatcher
\* waits to send to a full MsgDelivery while every resolver waits to send
\* to a full MsgEntrance.
C23_NoPipelineDeadlock ==
    ~ /\ Len(dispatchers) = NumDispatchers
      /\ Len(MsgDelivery) = ChanCap(nNodes)
      /\ Len(resolvers) = NumResolvers
      /\ Len(MsgEntrance) = ChanCap(nNodes)

\* C24: once StartViewChange has closed MsgEntrance no goroutine sends on
\* it: resolveMsg does not send a message whose handler failed into the
\* closed channel (such a send panics).
C24_NoSendOnClosedEntrance ==
    entranceClosed => ~panicked

(***************************************************************************)
(* Claims on the cluster.                                                  *)
(***************************************************************************)
\* Node r has broadcast the REPLY of sequence number 1, its result Executed.
Replied(r) ==
    \E i \in 1..Len(replicas[r].MsgOutbound) :
        replicas[r].MsgOutbound[i] = Reply(RequestMsg(ExecOperation, 1))

C1_Agreement ==
    \A r1, r2 \in Active :
        \A m1 \in replicas[r1].committed, m2 \in replicas[r2].committed :
            digest(m1) = digest(m2)

====
